---- MODULE Spec2Model ----
(***************************************************************************)
(* State-machine model of scripts/midi_serial_bridge.py: main() opens a    *)
(* serial connection and a MIDI input, installs a stop handler for SIGINT  *)
(* and SIGTERM, forwards the bytes of every pending non-meta MIDI message  *)
(* to the serial connection and closes both resources in a finally block.  *)
(*                                                                         *)
(* The program counter pc names the statement main() is about to execute.  *)
(* The environment has two actions: Arrive (a MIDI message reaches the     *)
(* open input port) and Signal (SIGINT or SIGTERM is delivered).           *)
(***************************************************************************)
EXTENDS Integers, Sequences, FiniteSets, TLC

\* ---- bounds of the model ----
\* total number of messages that arrive while the history is recorded
MaxMsgs == 3
\* messages the input port holds that iter_pending() has not yet yielded
MaxPending == 2

\* ---- inputs ----
Signals == {"SIGINT", "SIGTERM"}

\* msg.is_meta and the list msg.bytes() returns, for a small alphabet:
\* note_on (3 bytes), clock (1 byte) and a meta message (end_of_track)
MsgKinds ==
  { [is_meta |-> FALSE, data |-> <<144, 60, 100>>],
    [is_meta |-> FALSE, data |-> <<248>>],
    [is_meta |-> TRUE,  data |-> <<255, 47, 0>>] }

\* the local variable msg before the for loop has bound it
NoMsg == [id |-> 0, is_meta |-> FALSE, data |-> <<>>]

\* args as parse_args() returns them: --list, serial_port given, --midi-port given
ArgSets == [list : BOOLEAN, serial_port : BOOLEAN, midi_port : BOOLEAN]
NoArgs == [list |-> FALSE, serial_port |-> FALSE, midi_port |-> FALSE]

VARIABLES
  pc,        \* statement of main() about to run, or how the process ended
  args,      \* the parsed command line
  ser,       \* serial connection: "unopened", "open", "closed"
  midi,      \* MIDI input port:   "unopened", "open", "closed"
  running,   \* the local flag of main(): "unbound", "True", "False"
  handlers,  \* signals whose handler is stop()
  pending,   \* messages at the input port not yet yielded by iter_pending()
  cur,       \* the loop variable msg
  exc,       \* an exception raised inside the try block is propagating
  status,    \* exit status of the process, -1 while it is alive
  hist,      \* whether the history variables below are recorded
  taken,     \* history: messages yielded by iter_pending(), in order
  written,   \* history: the bytes the serial connection accepted, in order
  wrote,     \* history: ids of the messages whose ser.write() returned
  serOpens,  \* history: number of times serial.Serial() returned a connection
  midiOpens  \* history: number of times mido.open_input() returned a port

vars == <<pc, args, ser, midi, running, handlers, pending, cur, exc, status,
          hist, taken, written, wrote, serOpens, midiOpens>>

io == <<ser, midi, serOpens, midiOpens>>
log == <<taken, written, wrote>>

Terminal == {"listed", "usage", "serial_failed", "midi_failed",
             "stopped", "crashed", "killed"}
LoopPcs == {"while", "for", "body", "sleep"}
FinallyPcs == {"finally_midi", "finally_ser"}

\* bytes(msg.bytes()): the byte string holding the ints of the list, in order
bytes(l) == [i \in 1..Len(l) |-> l[i]]

\* a history variable keeps its old value when the history is not recorded
Rec(old, new) == IF hist THEN new ELSE old

Start ==
  /\ pc = "parse"
  /\ args = NoArgs
  /\ ser = "unopened"
  /\ midi = "unopened"
  /\ running = "unbound"
  /\ handlers = {}
  /\ pending = <<>>
  /\ cur = NoMsg
  /\ exc = FALSE
  /\ status = -1
  /\ taken = <<>>
  /\ written = <<>>
  /\ wrote = <<>>
  /\ serOpens = 0
  /\ midiOpens = 0

Init == Start /\ hist = TRUE

\* line 42: args = parser.parse_args()
ParseArgs ==
  /\ pc = "parse"
  /\ \E a \in ArgSets : args' = a
  /\ pc' = "check_list"
  /\ UNCHANGED <<io, running, handlers, pending, cur, exc, status, hist, log>>

\* CheckList with the test narrowed to "--list and no serial_port"
CheckListUnlessPort ==
  /\ pc = "check_list"
  /\ IF args.list /\ ~args.serial_port
       THEN pc' = "listed" /\ status' = 0
       ELSE pc' = "check_port" /\ status' = status
  /\ UNCHANGED <<args, io, running, handlers, pending, cur, exc, hist, log>>

\* lines 44-46: if args.list: list_midi_ports(); return
CheckList ==
  /\ pc = "check_list"
  /\ IF args.list
       THEN pc' = "listed" /\ status' = 0
       ELSE pc' = "check_port" /\ status' = status
  /\ UNCHANGED <<args, io, running, handlers, pending, cur, exc, hist, log>>

\* lines 48-51: if args.serial_port is None: print_help(); sys.exit(1)
CheckPort ==
  /\ pc = "check_port"
  /\ IF ~args.serial_port
       THEN pc' = "usage" /\ status' = 1
       ELSE pc' = "open_serial" /\ status' = status
  /\ UNCHANGED <<args, io, running, handlers, pending, cur, exc, hist, log>>

\* lines 54-58: ser = serial.Serial(...), or SerialException: sys.exit(1)
OpenSerial ==
  /\ pc = "open_serial"
  /\ \/ /\ ser' = "open"
        /\ serOpens' = serOpens + 1
        /\ pc' = "open_midi"
        /\ status' = status
     \/ /\ pc' = "serial_failed"
        /\ status' = 1
        /\ UNCHANGED <<ser, serOpens>>
  /\ UNCHANGED <<args, midi, midiOpens, running, handlers, pending, cur, exc,
                 hist, log>>

\* OpenMidi whose except clause exits without ser.close()
OpenMidiLeavesSerialOpen ==
  /\ pc = "open_midi"
  /\ \/ /\ midi' = "open"
        /\ midiOpens' = midiOpens + 1
        /\ pc' = "set_running"
        /\ UNCHANGED <<ser, status>>
     \/ /\ pc' = "midi_failed"
        /\ status' = 1
        /\ UNCHANGED <<ser, midi, midiOpens>>
  /\ UNCHANGED <<args, serOpens, running, handlers, pending, cur, exc, hist, log>>

\* lines 61-72: midi_in = mido.open_input(...) (named or virtual port), or
\* OSError/IOError: ser.close(); sys.exit(1)
OpenMidi ==
  /\ pc = "open_midi"
  /\ \/ /\ midi' = "open"
        /\ midiOpens' = midiOpens + 1
        /\ pc' = "set_running"
        /\ UNCHANGED <<ser, status>>
     \/ /\ ser' = "closed"
        /\ pc' = "midi_failed"
        /\ status' = 1
        /\ UNCHANGED <<midi, midiOpens>>
  /\ UNCHANGED <<args, serOpens, running, handlers, pending, cur, exc, hist, log>>

\* lines 74-77: the two prints and running = True
SetRunning ==
  /\ pc = "set_running"
  /\ running' = "True"
  /\ pc' = "install_int"
  /\ UNCHANGED <<args, io, handlers, pending, cur, exc, status, hist, log>>

\* line 83: signal.signal(signal.SIGINT, stop)
InstallSigint ==
  /\ pc = "install_int"
  /\ handlers' = handlers \cup {"SIGINT"}
  /\ pc' = "install_term"
  /\ UNCHANGED <<args, io, running, pending, cur, exc, status, hist, log>>

\* line 84: signal.signal(signal.SIGTERM, stop); the try block is entered next
InstallSigterm ==
  /\ pc = "install_term"
  /\ handlers' = handlers \cup {"SIGTERM"}
  /\ pc' = "while"
  /\ UNCHANGED <<args, io, running, pending, cur, exc, status, hist, log>>

\* line 87: while running: ... (line 88 then calls midi_in.iter_pending())
WhileTest ==
  /\ pc = "while"
  /\ pc' = IF running = "True" THEN "for" ELSE "finally_midi"
  /\ UNCHANGED <<args, io, running, handlers, pending, cur, exc, status, hist, log>>

\* line 88: the for statement asks iter_pending() for the next message: the
\* oldest pending one is yielded, or the iteration ends, or the read raises
ForNext ==
  /\ pc = "for"
  /\ \/ /\ pending # <<>>
        /\ cur' = Head(pending)
        /\ pending' = Tail(pending)
        /\ taken' = Rec(taken, Append(taken, Head(pending)))
        /\ pc' = "body"
        /\ exc' = exc
     \/ /\ pending = <<>>
        /\ pc' = "sleep"
        /\ UNCHANGED <<cur, pending, taken, exc>>
     \/ /\ exc' = TRUE
        /\ pc' = "finally_midi"
        /\ UNCHANGED <<cur, pending, taken>>
  /\ UNCHANGED <<args, io, running, handlers, status, hist, written, wrote>>

\* Body that writes only the status byte of the message
BodyStatusByteOnly ==
  /\ pc = "body"
  /\ IF cur.is_meta
       THEN /\ pc' = "for"
            /\ UNCHANGED <<written, wrote, exc>>
       ELSE \/ /\ written' = Rec(written, written \o SubSeq(bytes(cur.data), 1, 1))
               /\ wrote' = Rec(wrote, Append(wrote, cur.id))
               /\ pc' = "for"
               /\ exc' = exc
            \/ /\ written' = written
               /\ exc' = TRUE
               /\ pc' = "finally_midi"
               /\ wrote' = wrote
  /\ UNCHANGED <<args, io, running, handlers, pending, cur, status, hist, taken>>

\* Body without the is_meta test
BodyNoMetaFilter ==
  /\ pc = "body"
  /\ \/ /\ written' = Rec(written, written \o bytes(cur.data))
        /\ wrote' = Rec(wrote, Append(wrote, cur.id))
        /\ pc' = "for"
        /\ exc' = exc
     \/ /\ \E k \in 0..(Len(cur.data) - 1) :
             written' = Rec(written, written \o SubSeq(bytes(cur.data), 1, k))
        /\ exc' = TRUE
        /\ pc' = "finally_midi"
        /\ wrote' = wrote
  /\ UNCHANGED <<args, io, running, handlers, pending, cur, status, hist, taken>>

\* Body with the is_meta test inverted
BodyFilterInverted ==
  /\ pc = "body"
  /\ IF ~cur.is_meta
       THEN /\ pc' = "for"
            /\ UNCHANGED <<written, wrote, exc>>
       ELSE \/ /\ written' = Rec(written, written \o bytes(cur.data))
               /\ wrote' = Rec(wrote, Append(wrote, cur.id))
               /\ pc' = "for"
               /\ exc' = exc
            \/ /\ \E k \in 0..(Len(cur.data) - 1) :
                    written' = Rec(written, written \o SubSeq(bytes(cur.data), 1, k))
               /\ exc' = TRUE
               /\ pc' = "finally_midi"
               /\ wrote' = wrote
  /\ UNCHANGED <<args, io, running, handlers, pending, cur, status, hist, taken>>

\* lines 89-91: if msg.is_meta: continue; ser.write(bytes(msg.bytes())).
\* A write that raises may have sent a proper prefix of the bytes.
Body ==
  /\ pc = "body"
  /\ IF cur.is_meta
       THEN /\ pc' = "for"
            /\ UNCHANGED <<written, wrote, exc>>
       ELSE \/ /\ written' = Rec(written, written \o bytes(cur.data))
               /\ wrote' = Rec(wrote, Append(wrote, cur.id))
               /\ pc' = "for"
               /\ exc' = exc
            \/ /\ \E k \in 0..(Len(cur.data) - 1) :
                    written' = Rec(written, written \o SubSeq(bytes(cur.data), 1, k))
               /\ exc' = TRUE
               /\ pc' = "finally_midi"
               /\ wrote' = wrote
  /\ UNCHANGED <<args, io, running, handlers, pending, cur, status, hist, taken>>

\* line 92: time.sleep(0.001)
Sleep ==
  /\ pc = "sleep"
  /\ pc' = "while"
  /\ UNCHANGED <<args, io, running, handlers, pending, cur, exc, status, hist, log>>

\* line 94: finally: midi_in.close()
CloseMidi ==
  /\ pc = "finally_midi"
  /\ midi' = "closed"
  /\ pc' = "finally_ser"
  /\ UNCHANGED <<args, ser, serOpens, midiOpens, running, handlers, pending,
                 cur, exc, status, hist, log>>

\* CloseSer as plain code after the loop instead of a finally clause: an
\* exception leaving the loop skips ser.close()
CloseSerSkippedOnError ==
  /\ pc = "finally_ser"
  /\ IF exc
       THEN pc' = "crashed" /\ status' = 1 /\ ser' = ser
       ELSE pc' = "stopped" /\ status' = 0 /\ ser' = "closed"
  /\ UNCHANGED <<args, midi, serOpens, midiOpens, running, handlers, pending,
                 cur, exc, hist, log>>

\* CloseSer followed by a reconnection attempt after an I/O error
CloseSerReconnects ==
  /\ pc = "finally_ser"
  /\ ser' = "closed"
  /\ IF exc
       THEN pc' = "open_serial" /\ status' = status /\ exc' = FALSE
       ELSE pc' = "stopped" /\ status' = 0 /\ exc' = exc
  /\ UNCHANGED <<args, midi, serOpens, midiOpens, running, handlers, pending,
                 cur, hist, log>>

\* lines 95-96: ser.close(); print("\nStopped."); then main() returns, or the
\* exception that left the loop propagates and the interpreter exits with 1
CloseSer ==
  /\ pc = "finally_ser"
  /\ ser' = "closed"
  /\ IF exc
       THEN pc' = "crashed" /\ status' = 1
       ELSE pc' = "stopped" /\ status' = 0
  /\ UNCHANGED <<args, midi, serOpens, midiOpens, running, handlers, pending,
                 cur, exc, hist, log>>

\* the id the next arriving message gets (its position in arrival order)
NextId == IF hist THEN Len(taken) + Len(pending) + 1 ELSE 0

\* environment: a message reaches the open input port
Arrive ==
  /\ midi = "open"
  /\ pc \notin Terminal
  /\ Len(pending) < MaxPending
  /\ hist => Len(taken) + Len(pending) < MaxMsgs
  /\ \E k \in MsgKinds :
       pending' = Append(pending,
                         [id |-> NextId, is_meta |-> k.is_meta, data |-> k.data])
  /\ UNCHANGED <<pc, args, io, running, handlers, cur, exc, status, hist, log>>

\* Signal whose handler toggles the flag instead of clearing it
SignalToggles(s) ==
  /\ pc \notin Terminal
  /\ IF s \in handlers
       THEN /\ running' = IF running = "True" THEN "False" ELSE "True"
            /\ UNCHANGED <<pc, status>>
       ELSE /\ pc' = "killed"
            /\ status' = IF s = "SIGINT" THEN 1 ELSE 143
            /\ running' = running
  /\ UNCHANGED <<args, io, handlers, pending, cur, exc, hist, log>>

\* environment: signal s is delivered to the live process.  With stop()
\* installed (lines 79-81) the flag is cleared; otherwise the default
\* disposition ends the process where it stands (KeyboardInterrupt is caught
\* by neither except clause, SIGTERM terminates), closing nothing.
Signal(s) ==
  /\ pc \notin Terminal
  /\ IF s \in handlers
       THEN /\ running' = "False"
            /\ UNCHANGED <<pc, status>>
       ELSE /\ pc' = "killed"
            /\ status' = IF s = "SIGINT" THEN 1 ELSE 143
            /\ running' = running
  /\ UNCHANGED <<args, io, handlers, pending, cur, exc, hist, log>>

Program ==
  \/ ParseArgs
  \/ CheckList
  \/ CheckPort
  \/ OpenSerial
  \/ OpenMidi
  \/ SetRunning
  \/ InstallSigint
  \/ InstallSigterm
  \/ WhileTest
  \/ ForNext
  \/ Body
  \/ Sleep
  \/ CloseMidi
  \/ CloseSer

Next ==
  \/ Program
  \/ Arrive
  \/ \E s \in Signals : Signal(s)

Spec == Init /\ [][Next]_vars

\* The interpreter keeps executing main(): weak fairness on the program's own
\* steps, none on the environment.  Without the history the number of
\* arriving messages is unbounded (the port still holds at most MaxPending).
LiveInit == Start /\ hist \in BOOLEAN
LiveSpec == LiveInit /\ [][Next]_vars /\ WF_vars(Program)

\* ------------------------------------------------------------------------
\* Properties
\* ------------------------------------------------------------------------

NonMeta(ms) == SelectSeq(ms, LAMBDA m : ~m.is_meta)

\* the bytes of the non-meta messages of ms, concatenated in order
RECURSIVE WireOf(_)
WireOf(ms) ==
  IF ms = <<>> THEN <<>>
  ELSE IF Head(ms).is_meta THEN WireOf(Tail(ms))
  ELSE Head(ms).data \o WireOf(Tail(ms))

IdsOf(ms) == [i \in 1..Len(ms) |-> ms[i].id]

\* the messages taken whose loop body has run: at "body" the message in
\* hand has been taken and its write is not yet issued
Handled == IF pc = "body" THEN SubSeq(taken, 1, Len(taken) - 1) ELSE taken

Range(f) == {f[i] : i \in DOMAIN f}

\* the byte values that occur in a meta message of the alphabet; no non-meta
\* message of the alphabet uses any of them
MetaByteValues == UNION {Range(k.data) : k \in {m \in MsgKinds : m.is_meta}}

\* C1: in the forwarding loop (and after it ended without an exception) the
\* bytes written to the serial connection are exactly the bytes of the
\* non-meta messages handled so far, concatenated in the order they were
\* taken, and exactly one write was issued per such message, in that order.
C1_ByteForByte ==
  (pc \in LoopPcs \/ (pc \in FinallyPcs \cup {"stopped"} /\ ~exc)) =>
    /\ written = WireOf(Handled)
    /\ wrote = IdsOf(NonMeta(Handled))

C1_Witness ==
  /\ pc \in LoopPcs
  /\ Len(wrote) >= 2
  /\ Len(written) = 4
  /\ \E i \in 1..Len(Handled) : Handled[i].is_meta

\* C2: a meta message in hand leads to no serial write and the loop goes on
\* to the next pending message; no write is ever recorded for a meta message
\* and no byte value of a meta message is ever on the serial connection.
C2_MetaNeverWritten ==
  /\ [][(pc = "body" /\ cur.is_meta) =>
          (written' = written /\ wrote' = wrote /\ exc' = exc
           /\ pc' \in {"body", "for"})]_vars
  /\ [](/\ \A i \in 1..Len(wrote) : ~taken[wrote[i]].is_meta
        /\ \A i \in 1..Len(written) : written[i] \notin MetaByteValues)

C2_Witness ==
  /\ pc = "for"
  /\ cur.is_meta
  /\ Len(taken) >= 2
  /\ written # <<>>

\* every message that has arrived so far, in arrival order (the port is FIFO)
ArrivedMsgs == taken \o pending

StoppedOrFailed == running = "False" \/ exc \/ pc = "killed"

\* C3: under weak fairness on the program's steps, a non-meta message that
\* has arrived is eventually written, unless a stop signal is received or an
\* I/O error is raised.
C3_EventuallyForwarded ==
  \A i \in 1..MaxMsgs :
    (hist /\ Len(ArrivedMsgs) >= i /\ ~ArrivedMsgs[i].is_meta)
      ~> (i \in Range(wrote) \/ StoppedOrFailed)

C3_Witness ==
  /\ hist
  /\ Len(wrote) = MaxMsgs
  /\ ~StoppedOrFailed

BothClosed == midi = "closed" /\ ser = "closed"

\* C4 (as claimed): once a signal has cleared the running flag while the
\* loop is running, the program eventually ends with both resources closed,
\* whatever keeps arriving at the input.
C4_StopTerminates ==
  (running = "False" /\ pc \in LoopPcs) ~>
    (pc \in {"stopped", "crashed"} /\ BothClosed)

\* C5: the finally block closes the MIDI input first and the serial
\* connection second, and every end of the program reached from the loop,
\* with or without an exception, has both resources closed.
C5_CloseBoth ==
  /\ pc = "finally_midi" => (midi = "open" /\ ser = "open")
  /\ pc = "finally_ser" => (midi = "closed" /\ ser = "open")
  /\ pc \in {"stopped", "crashed"} => BothClosed
  /\ pc \in LoopPcs \cup FinallyPcs => handlers = Signals
  /\ (ser = "closed" /\ midiOpens > 0) => midi = "closed"

C5_Witness ==
  /\ pc = "crashed"
  /\ exc
  /\ BothClosed
  /\ running = "True"

NothingOpened == ser = "unopened" /\ midi = "unopened" /\ serOpens = 0 /\ midiOpens = 0

\* C6: a resource is opened only without --list and with a serial_port; with
\* --list the program returns with status 0 having opened nothing, with
\* neither it exits with status 1 having opened nothing.
C6_OpenOnlyWithPort ==
  /\ ~NothingOpened => (~args.list /\ args.serial_port)
  /\ pc = "listed" => (args.list /\ status = 0 /\ NothingOpened)
  /\ pc = "usage" => (~args.list /\ ~args.serial_port /\ status = 1 /\ NothingOpened)
  /\ (args.list /\ pc \in Terminal \ {"killed"}) => pc = "listed"
  /\ (~args.list /\ ~args.serial_port /\ pc \in Terminal \ {"killed"}) => pc = "usage"

C6_Witness ==
  /\ pc = "listed"
  /\ args.serial_port
  /\ NothingOpened

NeverForwarded == running = "unbound" /\ written = <<>> /\ wrote = <<>> /\ taken = <<>>

\* C7: a failed open ends the program with status 1, nothing open, the loop
\* never entered and nothing written; the serial connection is opened first.
C7_OpenFailure ==
  /\ pc = "serial_failed" =>
       (status = 1 /\ NothingOpened /\ NeverForwarded)
  /\ pc = "midi_failed" =>
       (status = 1 /\ ser = "closed" /\ serOpens = 1
        /\ midi = "unopened" /\ midiOpens = 0 /\ NeverForwarded)
  /\ midiOpens > 0 => serOpens > 0
  /\ pc = "open_midi" => ser = "open"

C7_Witness ==
  /\ pc = "midi_failed"
  /\ ser = "closed"
  /\ status = 1

\* C8: each resource is opened at most once; after an exception in the loop
\* nothing more is taken or written, nothing is reopened, and the program
\* only closes both resources and ends.
C8_NoRetry ==
  /\ [](/\ serOpens <= 1 /\ midiOpens <= 1
        /\ exc => pc \in FinallyPcs \cup {"crashed"}
        /\ pc = "crashed" => (BothClosed /\ status = 1))
  /\ [][exc => (written' = written /\ wrote' = wrote /\ taken' = taken /\ exc')]_vars
  /\ [][(ser = "closed" => ser' = "closed") /\ (midi = "closed" => midi' = "closed")]_vars

C8_Witness ==
  /\ pc = "crashed"
  /\ pending # <<>>
  /\ Len(wrote) >= 1
  /\ Len(taken) > Len(wrote)

\* C9: the running flag is bound to True once, is cleared only by the stop
\* handler and never set again; a later signal that stop() handles changes
\* nothing at all; every serial write happens with both resources open.
C9_RunningMonotone ==
  /\ [][running = "False" => running' = "False"]_vars
  /\ [][running' # running =>
          \/ (running = "unbound" /\ running' = "True" /\ pc = "set_running")
          \/ (running = "True" /\ running' = "False" /\ pc' = pc
              /\ \E s \in handlers : Signal(s))]_vars
  /\ [][\A s \in handlers : (running = "False" /\ Signal(s)) => UNCHANGED vars]_vars
  /\ [][(written' # written \/ wrote' # wrote) =>
          (ser = "open" /\ midi = "open" /\ ser' = "open" /\ midi' = "open")]_vars

C9_Witness ==
  /\ pc = "stopped"
  /\ running = "False"
  /\ Len(wrote) >= 1

\* C10 (as claimed): whenever a resource is open and a signal can still be
\* delivered, stop() handles both signals and the program is inside the
\* try/finally, so no end of the program leaves a resource open.
C10_SignalAlwaysCleansUp ==
  /\ ((ser = "open" \/ midi = "open") /\ pc \notin Terminal) =>
       (handlers = Signals /\ pc \in LoopPcs \cup FinallyPcs)
  /\ pc \in Terminal => (ser # "open" /\ midi # "open")

====
